---------------------------- MODULE Spec2Model ----------------------------
(***************************************************************************)
(* Model of the front-end analysis stage of autocxx's engine:              *)
(*   - conversion/parse/parse_bindgen.rs : ParseBindgen (the AST parser)   *)
(*   - conversion/error_reporter.rs      : report_any_error, convert_apis, *)
(*                                         convert_item_apis,              *)
(*                                         api_or_error, ignored_item      *)
(* Three specifications are given.  Spec walks a bindgen AST with          *)
(* ParseBindgen::parse_items, one AST item per step.  ConvSpec applies one *)
(* kind-dispatched phase conversion (convert_apis) to a list of APIs.      *)
(* PhaseSpec runs a list of APIs through a sequence of phase conversions   *)
(* of either shape (convert_apis, convert_item_apis), the output of one    *)
(* being the input of the next.                                            *)
(***************************************************************************)
EXTENDS Naturals, Sequences, FiniteSets, TLC

VARIABLES
    config,     \* ParseBindgen.config : the IncludeCppConfig (read only)
    top,        \* the `items` argument of parse_items (the top-level items),
                \* moved into find_items_in_root by the first step
    pc,         \* position of parse_items: "start", "walk" or "done"
    apis,       \* ParseBindgen.apis : ApiVec<NullPhase>
    frames,     \* one entry per active parse_mod_items call (innermost last):
                \*   ns, more_apis and the ParseForeignMod of that call
    pos,        \* number of AST items taken from the walk so far
    result,     \* how parse_items ended: "none" while running, then "ok",
                \* "UnexpectedOuterItem", "DidNotGenerateAnything" or "panic"
    returned,   \* the ApiVec parse_items returned (empty unless result = "ok")
    in_apis,    \* convert_apis : the in_apis argument
    out_apis,   \* convert_apis : the out_apis argument
    callbacks,  \* convert_apis : what the conversion closures answer, per item
    conv_pc,    \* "ready" before the call of convert_apis, "converted" after
                \* it, "item_converted" after a call of convert_item_apis
    phase       \* number of phase conversions run so far

vars == <<config, top, pc, apis, frames, pos, result, returned,
          in_apis, out_apis, callbacks, conv_pc, phase>>

parseVars == <<config, top, pc, apis, frames, pos, result, returned>>
convVars == <<in_apis, out_apis, callbacks, conv_pc, phase>>

(***************************************************************************)
(* Bounds of the model.                                                    *)
(***************************************************************************)
MaxItems == 3   \* AST items walked in one run of parse_items
MaxDepth == 2   \* nesting depth of namespaces (mods inside root)
MaxTop == 2     \* length of the top-level item list
MaxApis == 3    \* length of the list handed to convert_apis
MaxPhases == 2  \* phase conversions run one after the other

(***************************************************************************)
(* Generic sequence helpers.                                               *)
(***************************************************************************)
RECURSIVE Concat(_)
Concat(ss) == IF ss = <<>> THEN <<>> ELSE Head(ss) \o Concat(Tail(ss))

SeqsUpTo(S, n) == UNION {[1..k -> S] : k \in 0..n}

Range(s) == {s[i] : i \in 1..Len(s)}

(***************************************************************************)
(* Identity and namespace model (types.rs, api.rs).                        *)
(***************************************************************************)
RootNs == <<>>

NsPush(ns, seg) == Append(ns, seg)

QualifiedName(ns, id) == [ns |-> ns, id |-> id]

NoName == [ns |-> <<>>, id |-> ""]

RECURSIVE JoinCpp(_)
JoinCpp(segs) ==
    IF Len(segs) = 1 THEN segs[1] ELSE segs[1] \o "::" \o JoinCpp(Tail(segs))

\* QualifiedName::to_cpp_name : namespace segments and identifier joined by ::
ToCppName(qn) == JoinCpp(Append(qn.ns, qn.id))

\* QualifiedName::from_type_path : the last segment is the identifier
FromTypePath(path) ==
    [ns |-> SubSeq(path, 1, Len(path) - 1), id |-> path[Len(path)]]

InvalidIdents == {"a__b"}

\* types::validate_ident_ok_for_cxx
ValidateIdentOkForCxx(id) == id \notin InvalidIdents

(***************************************************************************)
(* Errors (convert_error.rs).                                              *)
(***************************************************************************)
CtxNone == [kind |-> "None", id |-> ""]          \* Option::None
CtxItem(id) == [kind |-> "Item", id |-> id]      \* Some(ErrorContext::Item(id))
CtxOther == [kind |-> "Other", id |-> ""]        \* Some(ctx), ctx without an id

\* ErrorContext::get_id
GetId(ctx) == IF ctx.kind = "Item" THEN <<ctx.id>> ELSE <<>>

ConvertErrorWithContext(err, ctx) == [err |-> err, ctx |-> ctx]

(***************************************************************************)
(* Api<Phase> (api.rs).  Every variant is a record of the same shape; a    *)
(* field a variant does not have is "-".  src is the position of the AST   *)
(* node the payload was taken from (0: not taken from the AST).            *)
(***************************************************************************)
Api(kind, name, item, old_tyname, analysis, err, ctx, src) ==
    [kind |-> kind, name |-> name, item |-> item, old_tyname |-> old_tyname,
     analysis |-> analysis, err |-> err, ctx |-> ctx, src |-> src]

PlainApi(kind, name, item, src) ==
    Api(kind, name, item, NoName, "-", "-", CtxNone, src)

IgnoredItemApi(name, err, ctx, src) ==
    Api("IgnoredItem", name, "-", NoName, "-", err, ctx, src)

ApiKinds ==
    {"ConcreteType", "ForwardDeclaration", "StringConstructor", "Const",
     "CType", "RustType", "RustFn", "RustSubclassFn", "Subclass",
     "IgnoredItem", "SubclassTraitItem", "Enum", "Typedef", "Function",
     "Struct"}

(***************************************************************************)
(* ApiVec (apivec.rs).                                                     *)
(***************************************************************************)
ApiNames(v) == {v[i].name : i \in 1..Len(v)}

\* ApiVec::push : plain append
Push(v, api) == Append(v, api)

\* ApiVec::extend / ApiVec::append : plain append of every element
Extend(v, more) == v \o more

\* ApiVec::push_eliminating_duplicates : dropped when the identity is present
PushEliminatingDuplicates(v, api) ==
    IF api.name \in ApiNames(v) THEN v ELSE Append(v, api)

(***************************************************************************)
(* error_reporter.rs                                                       *)
(***************************************************************************)
\* ignored_item : Option<Api>, as a sequence of length 0 or 1
IgnoredItem(ns, ctx, err, src) ==
    IF GetId(ctx) = <<>> THEN <<>>
    ELSE <<IgnoredItemApi(QualifiedName(ns, GetId(ctx)[1]), err, ctx, src)>>

\* report_any_error : the more_apis list after `fun` answered `res`
\* (res.ok, or res.err and res.ctx)
ReportAnyError(ns, more, res, src) ==
    IF res.ok THEN more
    ELSE IF res.ctx.kind = "None" THEN more
    ELSE IF IgnoredItem(ns, res.ctx, res.err, src) # <<>>
         THEN Push(more, IgnoredItem(ns, res.ctx, res.err, src)[1])
         ELSE more

\* api_or_error with the Some(ctx) arm answering like the None arm
ApiOrErrorDropsFailure(name, res) == IF res.ok THEN res.out ELSE <<>>

\* api_or_error : the iterator one input API contributes
ApiOrError(name, res) ==
    IF res.ok THEN res.out
    ELSE IF res.ctx.kind = "None" THEN <<>>
    ELSE IgnoredItem(name.ns, res.ctx, res.err, 0)

OkResult(out) == [ok |-> TRUE, out |-> out, err |-> "-", ctx |-> CtxNone]

ErrResult(err, ctx) == [ok |-> FALSE, out |-> <<>>, err |-> err, ctx |-> ctx]

\* What a conversion closure answers for one API: it converts the API into
\* one API of the next phase, expands it into two, or fails with an error
\* that has no context, a context without identifier, or a context naming
\* an identifier.
CallbackAnswers ==
    {[tag |-> "Ok1", ctx |-> CtxNone],
     [tag |-> "Ok2", ctx |-> CtxNone],
     [tag |-> "Err", ctx |-> CtxNone],
     [tag |-> "Err", ctx |-> CtxOther],
     [tag |-> "Err", ctx |-> CtxItem("Other")]}

NotCalled == [tag |-> "NotCalled", ctx |-> CtxNone]

Converted(api) == [api EXCEPT !.analysis = "B"]

Expansion(api) ==
    [api EXCEPT !.analysis = "B",
                !.name = QualifiedName(api.name.ns, api.name.id \o "_1")]

\* func_conversion, struct_conversion, enum_conversion, typedef_conversion
CallConversion(api, answer) ==
    CASE answer.tag = "Ok1" -> OkResult(<<Converted(api)>>)
      [] answer.tag = "Ok2" -> OkResult(<<Converted(api), Expansion(api)>>)
      [] OTHER -> ErrResult("ConversionFailed", answer.ctx)

\* the match with the StringConstructor arm building a ForwardDeclaration
ConvertMatchWrongArm(api, answer) ==
    IF api.kind \in {"Enum", "Typedef", "Function", "Struct"}
    THEN CallConversion(api, answer)
    ELSE IF api.kind = "StringConstructor"
         THEN OkResult(<<[api EXCEPT !.kind = "ForwardDeclaration"]>>)
         ELSE OkResult(<<api>>)

\* convert_apis, the match on the variant (lines 83-157)
ConvertMatch(api, answer) ==
    IF api.kind \in {"Enum", "Typedef", "Function", "Struct"}
    THEN CallConversion(api, answer)
    ELSE OkResult(<<api>>)

\* convert_apis, the flat_map closure for one API (lines 81-159)
ConvertOne(api, answer) == ApiOrError(api.name, ConvertMatch(api, answer))

\* convert_apis : out_apis after the call
ConvertApisOut(ins, out, cbs) ==
    Extend(out, Concat([i \in 1..Len(ins) |-> ConvertOne(ins[i], cbs[i])]))

\* What the closure `fun` of convert_item_apis answers for one API: nothing,
\* the API in the next phase, or a plain ConvertError.
ItemCallbackAnswers ==
    {[tag |-> "Ok0", ctx |-> CtxNone],
     [tag |-> "Ok1", ctx |-> CtxNone],
     [tag |-> "Err", ctx |-> CtxNone]}

\* the API as the closure rebuilds it in the next phase: a variant without
\* analysis is rebuilt as it is
NextPhaseApi(api) == IF api.analysis = "-" THEN api ELSE Converted(api)

\* fun(api), line 194
CallFun(api, answer) ==
    CASE answer.tag = "Ok0" -> OkResult(<<>>)
      [] answer.tag = "Ok1" -> OkResult(<<NextPhaseApi(api)>>)
      [] OTHER -> ErrResult("ConversionFailed", CtxNone)

\* the map_err of lines 194-196: the error gets the context
\* Some(ErrorContext::Item(tn.get_final_ident()))
MapErr(name, res) ==
    IF res.ok THEN res ELSE ErrResult(res.err, CtxItem(name.id))

\* the flat_map closure with the error left without context
ConvertItemOneNoContext(api, answer) ==
    ApiOrError(api.name, CallFun(api, answer))

\* convert_item_apis, the flat_map closure for one API (lines 192-198)
ConvertItemOne(api, answer) ==
    ApiOrError(api.name, MapErr(api.name, CallFun(api, answer)))

\* convert_item_apis : out_apis after the call
ConvertItemApisOut(ins, out, cbs) ==
    Extend(out, Concat([i \in 1..Len(ins) |-> ConvertItemOne(ins[i], cbs[i])]))


(***************************************************************************)
(* IncludeCppConfig (autocxx_parser), as far as ParseBindgen reads it.     *)
(***************************************************************************)
NoInjection ==
    [subclasses |-> <<>>, extern_rust_funs |-> <<>>, rust_types |-> <<>>]

SomeInjection ==
    [subclasses |-> <<[subclass |-> "Sub", superclass |-> "Foo"]>>,
     extern_rust_funs |-> <<[ident |-> "rf", path |-> <<"crate", "rf">>]>>,
     rust_types |-> <<<<"crate", "Foo">>>>]

Configs ==
    {[exclude_utilities |-> eu, subclasses |-> inj.subclasses,
      extern_rust_funs |-> inj.extern_rust_funs, rust_types |-> inj.rust_types,
      blocklist |-> bl, must_generate |-> mg] :
        eu \in BOOLEAN, inj \in {NoInjection, SomeInjection},
        bl \in {{}, {"Foo"}},
        mg \in {<<>>, <<"Foo">>, <<"a::Foo", "a__b">>}}

\* RustPath::get_final_ident
GetFinalIdent(path) == path[Len(path)]

\* IncludeCppConfig::is_rust_type
IsRustType(cfg, id) ==
    \E i \in 1..Len(cfg.rust_types) : GetFinalIdent(cfg.rust_types[i]) = id

\* IncludeCppConfig::is_on_blocklist
IsOnBlocklist(cfg, cpp_name) == cpp_name \in cfg.blocklist

\* IncludeCppConfig::must_generate_list
MustGenerateList(cfg) == cfg.must_generate

\* utilities::generate_utilities
GenerateUtilities(v, cfg) ==
    Push(v, PlainApi("StringConstructor",
                     QualifiedName(RootNs, "make_string"), "-", 0))

(***************************************************************************)
(* The bindgen AST (syn::Item), as far as ParseBindgen reads it.           *)
(***************************************************************************)
Field(ident, rvalue) == [ident |-> ident, rvalue |-> rvalue]

NoTree == <<>>

Item(kind, ident, fields, tree, funs) ==
    [kind |-> kind, ident |-> ident, fields |-> fields, tree |-> tree,
     funs |-> funs]

StructItem(ident, fields) == Item("Struct", ident, fields, NoTree, <<>>)

UsePath(ident) == [t |-> "Path", ident |-> ident, rename |-> ""]

UseName(ident) == [t |-> "Name", ident |-> ident, rename |-> ""]

UseRename(ident, rename) == [t |-> "Rename", ident |-> ident, rename |-> rename]

UseGlob == [t |-> "Glob", ident |-> "", rename |-> ""]

\* a use tree: the Path nodes from the outside in, then the leaf
UseItem(path, leaf) ==
    Item("Use", "", <<>>, [i \in 1..Len(path) |-> UsePath(path[i])] \o <<leaf>>,
         <<>>)

FieldLists ==
    {<<>>,
     <<Field("_unused", FALSE)>>,
     <<Field("x", TRUE)>>,
     <<Field("x", FALSE), Field("_unused", FALSE)>>}

StructItems ==
    {StructItem("Foo", fs) : fs \in FieldLists}
        \cup {StructItem("a__b", <<Field("_unused", FALSE)>>),
              StructItem("Foo__bindgen_vtable", <<Field("x", FALSE)>>)}

RenamePaths ==
    {<<>>, <<"self">>, <<"self", "super">>, <<"self", "super", "a">>}

UseItems ==
    {UseItem(p, UseRename(old, "Foo")) : p \in RenamePaths, old \in {"Foo", "Bar"}}
        \cup {UseItem(<<"self", "super">>, UseName("root")),
              UseItem(<<"self", "super">>, UseName("Foo")),
              UseItem(<<"self">>, UseGlob)}

\* The items a mod may hold, a mod with content apart (see EnterMod).
LeafItems ==
    StructItems \cup UseItems
        \cup {Item("Enum", id, <<>>, NoTree, <<>>) : id \in {"Foo", "a__b"}}
        \cup {Item("Const", id, <<>>, NoTree, <<>>) : id \in {"Foo", "Bar"}}
        \cup {Item("Type", "Foo", <<>>, NoTree, <<>>),
              Item("ForeignMod", "", <<>>, NoTree, <<"f">>),
              Item("Impl", "Foo", <<>>, NoTree, <<>>),
              Item("Mod", "a", <<>>, NoTree, <<>>),
              Item("Fn", "h", <<>>, NoTree, <<>>)}

ModNames == {"a", "b"}

\* The top-level items: the root mod (with or without content), a mod of
\* another name, an item that is no mod.
TopMod(ident, content) == [kind |-> "Mod", ident |-> ident, content |-> content]

TopItems ==
    {TopMod("root", TRUE), TopMod("root", FALSE), TopMod("other", TRUE),
     [kind |-> "Struct", ident |-> "Foo", content |-> FALSE]}

(***************************************************************************)
(* ParseForeignMod (parse_foreign_mod.rs) : the functions met in the       *)
(* extern blocks of one mod, turned into Function APIs when it finishes.   *)
(***************************************************************************)
NewForeignMod == <<>>

\* ParseForeignMod::convert_foreign_mod_items
ConvertForeignModItems(conv, funs, src) ==
    conv \o [i \in 1..Len(funs) |-> [ident |-> funs[i], src |-> src]]

\* ParseForeignMod::convert_impl_items : records methods, adds no function
ConvertImplItems(conv, imp) == conv

\* ParseForeignMod::finished
Finished(v, ns, conv) ==
    Extend(v, [i \in 1..Len(conv) |->
                 Api("Function", QualifiedName(ns, conv[i].ident), "fun",
                     NoName, "()", "-", CtxNone, conv[i].src)])

(***************************************************************************)
(* ParseBindgen (parse_bindgen.rs)                                         *)
(***************************************************************************)
\* api_name : ApiName::new_with_cpp_name; Api::name() is its QualifiedName
ApiNameOf(ns, id) == QualifiedName(ns, id)

\* api_name_qualified : the name, or the error with the identifier as context
ApiNameQualified(ns, id) ==
    IF ValidateIdentOkForCxx(id)
    THEN [ok |-> TRUE, name |-> ApiNameOf(ns, id), err |-> "-", ctx |-> CtxNone]
    ELSE [ok |-> FALSE, name |-> NoName, err |-> "InvalidIdent",
          ctx |-> CtxItem(id)]

\* ParseBindgen::add_apis_from_config
AddApisFromConfig(v, cfg) ==
    LET subs == [i \in 1..Len(cfg.subclasses) |->
                    PlainApi("Subclass",
                             QualifiedName(RootNs, cfg.subclasses[i].subclass),
                             cfg.subclasses[i].superclass, 0)]
        funs == [i \in 1..Len(cfg.extern_rust_funs) |->
                    PlainApi("RustFn",
                             QualifiedName(RootNs, cfg.extern_rust_funs[i].ident),
                             JoinCpp(cfg.extern_rust_funs[i].path), 0)]
        tys == [i \in 1..Len(cfg.rust_types) |->
                    PlainApi("RustType",
                             QualifiedName(RootNs,
                                           GetFinalIdent(cfg.rust_types[i])),
                             JoinCpp(cfg.rust_types[i]), 0)]
    IN Extend(Extend(Extend(v, subs), funs), tys)

\* find_items_in_root giving up at a root mod without content
RECURSIVE FindItemsInRootFirstMod(_)
FindItemsInRootFirstMod(items) ==
    IF items = <<>> THEN "empty"
    ELSE IF Head(items).kind = "Mod"
         THEN IF Head(items).ident # "root" THEN "panic"
              ELSE IF Head(items).content THEN "content" ELSE "empty"
         ELSE "UnexpectedOuterItem"

\* ParseBindgen::find_items_in_root : "content" (the items of the root mod),
\* "empty" (Ok(Vec::new())), "UnexpectedOuterItem", or "panic" (the assert)
RECURSIVE FindItemsInRoot(_)
FindItemsInRoot(items) ==
    IF items = <<>> THEN "empty"
    ELSE IF Head(items).kind = "Mod"
         THEN IF Head(items).ident # "root" THEN "panic"
              ELSE IF Head(items).content THEN "content"
              ELSE FindItemsInRoot(Tail(items))
         ELSE "UnexpectedOuterItem"

\* spot_forward_declaration looking at the first field only
SpotForwardDeclarationFirstField(fields) ==
    Len(fields) >= 1 /\ fields[1].ident = "_unused"

\* ParseBindgen::spot_forward_declaration
SpotForwardDeclaration(fields) ==
    \E i \in 1..Len(fields) : fields[i].ident # "" /\ fields[i].ident = "_unused"

\* s.ident.to_string().ends_with("__bindgen_vtable")
EndsWithBindgenVtable(id) == id \in {"Foo__bindgen_vtable", "__bindgen_vtable"}

\* what parse_item hands back: the Result, self.apis and the ParseForeignMod
\* after it; panic when an assert or an index failed
Parsed(v, conv, ok, err, ctx) ==
    [apis |-> v, conv |-> conv, ok |-> ok, err |-> err, ctx |-> ctx,
     panic |-> FALSE]

ParsedOk(v, conv) == Parsed(v, conv, TRUE, "-", CtxNone)

Panicked(v, conv) ==
    [apis |-> v, conv |-> conv, ok |-> FALSE, err |-> "panic", ctx |-> CtxNone,
     panic |-> TRUE]

\* parse_item, Item::Struct (lines 156-190)
ParseStruct(cfg, s, ns, v, conv, src) ==
    IF EndsWithBindgenVtable(s.ident) THEN ParsedOk(v, conv)
    ELSE LET is_forward_declaration == SpotForwardDeclaration(s.fields)
             name == ApiNameQualified(ns, s.ident)
             has_rvalue_reference_fields ==
                 \E i \in 1..Len(s.fields) : s.fields[i].rvalue
             api == IF is_forward_declaration
                    THEN PlainApi("ForwardDeclaration", name.name, "-", src)
                    ELSE Api("Struct", name.name,
                             IF has_rvalue_reference_fields
                             THEN "struct_rvalue" ELSE "struct",
                             NoName, "()", "-", CtxNone, src)
         IN IF ~name.ok THEN Parsed(v, conv, FALSE, name.err, name.ctx)
            ELSE IF ns = RootNs /\ IsRustType(cfg, s.ident) THEN ParsedOk(v, conv)
            ELSE IF ~IsOnBlocklist(cfg, ToCppName(api.name))
                 THEN ParsedOk(PushEliminatingDuplicates(v, api), conv)
                 ELSE ParsedOk(v, conv)

\* parse_item, Item::Enum (lines 191-201)
ParseEnum(cfg, e, ns, v, conv, src) ==
    LET name == ApiNameQualified(ns, e.ident)
        api == PlainApi("Enum", name.name, "enum", src)
    IN IF ~name.ok THEN Parsed(v, conv, FALSE, name.err, name.ctx)
       ELSE IF ~IsOnBlocklist(cfg, ToCppName(api.name))
            THEN ParsedOk(PushEliminatingDuplicates(v, api), conv)
            ELSE ParsedOk(v, conv)

\* the Rename arm without the comparison of the old and the new name
ParseRenameUnchecked(urn, segs, ns, v, conv, src) ==
    IF segs = <<>> \/ segs[1] # "self" THEN Panicked(v, conv)
    ELSE IF Tail(segs) = <<>> \/ Tail(segs)[1] # "super" THEN Panicked(v, conv)
    ELSE ParsedOk(
             PushEliminatingDuplicates(v,
                 Api("Typedef", ApiNameOf(ns, urn.rename), "use",
                     FromTypePath(Append(Tail(Tail(segs)), urn.ident)), "()",
                     "-", CtxNone, src)),
             conv)

\* parse_item, Item::Use, the UseTree::Rename arm (lines 231-265)
ParseRename(urn, segs, ns, v, conv, src) ==
    LET new_tyname == QualifiedName(ns, urn.rename)
    IN IF segs = <<>> \/ segs[1] # "self" THEN Panicked(v, conv)
       ELSE IF Tail(segs) = <<>> \/ Tail(segs)[1] # "super"
            THEN Panicked(v, conv)
       ELSE LET old_path == Append(Tail(Tail(segs)), urn.ident)
                old_tyname == FromTypePath(old_path)
            IN IF new_tyname = old_tyname
               THEN Parsed(v, conv, FALSE, "InfinitelyRecursiveTypedef",
                           CtxItem(urn.rename))
               ELSE ParsedOk(
                        PushEliminatingDuplicates(v,
                            Api("Typedef", ApiNameOf(ns, urn.rename), "use",
                                old_tyname, "()", "-", CtxNone, src)),
                        conv)

\* parse_item, Item::Use, the loop over the use tree (lines 220-275)
RECURSIVE ParseUse(_, _, _, _, _, _, _)
ParseUse(tree, i, segs, ns, v, conv, src) ==
    CASE tree[i].t = "Path" ->
            ParseUse(tree, i + 1, Append(segs, tree[i].ident), ns, v, conv, src)
      [] tree[i].t = "Name" /\ tree[i].ident = "root" -> ParsedOk(v, conv)
      [] tree[i].t = "Rename" -> ParseRename(tree[i], segs, ns, v, conv, src)
      [] OTHER -> Parsed(v, conv, FALSE, "UnexpectedUseStatement", CtxNone)

\* ParseBindgen::parse_item, for every item but a mod with content
ParseItem(cfg, item, ns, v, conv, src) ==
    CASE item.kind = "ForeignMod" ->
            ParsedOk(v, ConvertForeignModItems(conv, item.funs, src))
      [] item.kind = "Struct" -> ParseStruct(cfg, item, ns, v, conv, src)
      [] item.kind = "Enum" -> ParseEnum(cfg, item, ns, v, conv, src)
      [] item.kind = "Impl" -> ParsedOk(v, ConvertImplItems(conv, item))
      [] item.kind = "Mod" -> ParsedOk(v, conv)
      [] item.kind = "Use" -> ParseUse(item.tree, 1, <<>>, ns, v, conv, src)
      [] item.kind = "Const" ->
            ParsedOk(PushEliminatingDuplicates(v,
                        PlainApi("Const", ApiNameOf(ns, item.ident), "const",
                                 src)),
                     conv)
      [] item.kind = "Type" ->
            ParsedOk(PushEliminatingDuplicates(v,
                        Api("Typedef", ApiNameOf(ns, item.ident), "type",
                            NoName, "()", "-", CtxNone, src)),
                     conv)
      [] OTHER -> Parsed(v, conv, FALSE, "UnexpectedItemInMod", CtxNone)

\* the check satisfied by any one directive that is obeyed
ConfirmAnyGenerateDirectiveObeyed(cfg, v) ==
    LET api_names == {ToCppName(v[i].name) : i \in 1..Len(v)}
    IN \/ MustGenerateList(cfg) = <<>>
       \/ \E i \in 1..Len(MustGenerateList(cfg)) :
             MustGenerateList(cfg)[i] \in api_names

\* ParseBindgen::confirm_all_generate_directives_obeyed
ConfirmAllGenerateDirectivesObeyed(cfg, v) ==
    LET api_names == {ToCppName(v[i].name) : i \in 1..Len(v)}
    IN \A i \in 1..Len(MustGenerateList(cfg)) :
          MustGenerateList(cfg)[i] \in api_names

\* the end of parse_mod_items with its two lines exchanged
ModFinishedFunctionsFirst(v, frame) ==
    Extend(Finished(v, frame.ns, frame.conv), frame.more_apis)

\* parse_mod_items, after the loop (lines 141-142)
ModFinished(v, frame) ==
    Finished(Extend(v, frame.more_apis), frame.ns, frame.conv)

NewFrame(ns) == [ns |-> ns, more_apis |-> <<>>, conv |-> NewForeignMod]

(***************************************************************************)
(* Spec : ParseBindgen::parse_items.  The items of the mods are taken one  *)
(* per step, in the order parse_mod_items meets them.                      *)
(***************************************************************************)
ConvIdle ==
    /\ in_apis = <<>>
    /\ out_apis = <<>>
    /\ callbacks = <<>>
    /\ conv_pc = "idle"
    /\ phase = 0

\* ParseBindgen::new, and the arguments of parse_items
Init ==
    /\ config \in Configs
    /\ top \in SeqsUpTo(TopItems, MaxTop)
    /\ pc = "start"
    /\ apis = <<>>
    /\ frames = <<>>
    /\ pos = 0
    /\ result = "none"
    /\ returned = <<>>
    /\ ConvIdle

\* parse_items, lines 75-78
Seeded(cfg) ==
    AddApisFromConfig(IF ~cfg.exclude_utilities
                      THEN GenerateUtilities(<<>>, cfg) ELSE <<>>, cfg)

\* parse_items, lines 81-82 : the result for the list built
Outcome(cfg, v) ==
    IF ConfirmAllGenerateDirectivesObeyed(cfg, v)
    THEN "ok" ELSE "DidNotGenerateAnything"

\* parse_items up to the first item of the root mod (lines 74-80)
Begin ==
    /\ pc = "start"
    /\ LET found == FindItemsInRoot(top)
           built == ModFinished(Seeded(config), NewFrame(RootNs))
       IN CASE found = "content" ->
                  /\ apis' = Seeded(config)
                  /\ frames' = <<NewFrame(RootNs)>>
                  /\ pc' = "walk"
                  /\ UNCHANGED <<result, returned>>
            [] found = "empty" ->
                  /\ apis' = built
                  /\ result' = Outcome(config, built)
                  /\ returned' = IF Outcome(config, built) = "ok"
                                 THEN built ELSE <<>>
                  /\ pc' = "done"
                  /\ UNCHANGED frames
            [] OTHER ->
                  /\ result' = found
                  /\ pc' = "done"
                  /\ UNCHANGED <<apis, frames, returned>>
    /\ top' = <<>>
    /\ UNCHANGED <<config, pos, convVars>>

\* bindgen declares a function once in a namespace (overloads are renamed):
\* an extern block is met only with functions the namespace does not have
NotYetDeclared(item, frame) ==
    \A k \in 1..Len(item.funs) :
        /\ QualifiedName(frame.ns, item.funs[k]) \notin ApiNames(apis)
        /\ \A i \in 1..Len(frame.conv) : frame.conv[i].ident # item.funs[k]

\* parse_mod_items, one turn of the loop (lines 136-140) on an item that is
\* no mod with content: report_any_error around parse_item
ParseLeaf(item) ==
    /\ pc = "walk"
    /\ pos < MaxItems
    /\ NotYetDeclared(item, frames[Len(frames)])
    /\ LET d == Len(frames)
           f == frames[d]
           r == ParseItem(config, item, f.ns, apis, f.conv, pos + 1)
       IN IF r.panic
          THEN /\ result' = "panic"
               /\ pc' = "done"
               /\ UNCHANGED <<apis, frames>>
          ELSE /\ apis' = r.apis
               /\ frames' = [frames EXCEPT ![d] =
                    [ns |-> f.ns,
                     more_apis |-> ReportAnyError(f.ns, f.more_apis, r, pos + 1),
                     conv |-> r.conv]]
               /\ UNCHANGED <<result, pc>>
    /\ pos' = pos + 1
    /\ UNCHANGED <<config, top, returned, convVars>>

\* parse_item, Item::Mod with content (lines 213-217) : parse_mod_items starts
\* on the items of the mod
EnterMod(ident) ==
    /\ pc = "walk"
    /\ pos < MaxItems
    /\ Len(frames) <= MaxDepth
    /\ frames' = Append(frames, NewFrame(NsPush(frames[Len(frames)].ns, ident)))
    /\ pos' = pos + 1
    /\ UNCHANGED <<config, top, pc, apis, result, returned, convVars>>

\* parse_mod_items, the end of the items of a mod (lines 141-142); for the
\* root mod parse_items then ends (lines 81-82)
FinishMod ==
    /\ pc = "walk"
    /\ LET d == Len(frames)
           built == ModFinished(apis, frames[d])
       IN /\ apis' = built
          /\ frames' = SubSeq(frames, 1, d - 1)
          /\ IF d = 1
             THEN /\ result' = Outcome(config, built)
                  /\ returned' = IF Outcome(config, built) = "ok"
                                 THEN built ELSE <<>>
                  /\ pc' = "done"
             ELSE UNCHANGED <<result, returned, pc>>
    /\ UNCHANGED <<config, top, pos, convVars>>

Next ==
    \/ Begin
    \/ \E item \in LeafItems : ParseLeaf(item)
    \/ \E ident \in ModNames : EnterMod(ident)
    \/ FinishMod

Spec == Init /\ [][Next]_vars

(***************************************************************************)
(* ConvSpec : one call of convert_apis on a list of APIs of any variant.   *)
(***************************************************************************)
Foo == QualifiedName(RootNs, "Foo")

SampleApi(kind, name) ==
    IF kind = "IgnoredItem"
    THEN IgnoredItemApi(name, "UnexpectedItemInMod", CtxItem(name.id), 0)
    ELSE Api(kind, name, "item", NoName,
             IF kind \in {"Typedef", "Function", "Struct"} THEN "A" ELSE "-",
             "-", CtxNone, 0)

\* The APIs convert_apis is fed with: one of every variant, the Function in
\* a namespace.
ConvInputApis ==
    {SampleApi(k, IF k = "Function" THEN QualifiedName(<<"a">>, "g") ELSE Foo) :
        k \in ApiKinds}

AnswersFor(api) ==
    IF api.kind \in {"Enum", "Typedef", "Function", "Struct"}
    THEN CallbackAnswers ELSE {NotCalled}

\* the closures answer every API they are called for
RECURSIVE CallbackChoices(_)
CallbackChoices(ins) ==
    IF ins = <<>> THEN {<<>>}
    ELSE {<<a>> \o rest : a \in AnswersFor(Head(ins)),
                          rest \in CallbackChoices(Tail(ins))}

ParseIdle ==
    /\ config = [exclude_utilities |-> TRUE, subclasses |-> <<>>,
                 extern_rust_funs |-> <<>>, rust_types |-> <<>>,
                 blocklist |-> {}, must_generate |-> <<>>]
    /\ top = <<>>
    /\ pc = "done"
    /\ apis = <<>>
    /\ frames = <<>>
    /\ pos = 0
    /\ result = "none"
    /\ returned = <<>>

ConvInit ==
    /\ ParseIdle
    /\ in_apis \in SeqsUpTo(ConvInputApis, MaxApis)
    /\ out_apis = <<>>
    /\ callbacks = <<>>
    /\ conv_pc = "ready"
    /\ phase = 0

\* convert_apis(in_apis, &mut out_apis, func_conversion, struct_conversion,
\*              enum_conversion, typedef_conversion)
ConvertApis ==
    /\ conv_pc = "ready"
    /\ \E cbs \in CallbackChoices(in_apis) :
          /\ callbacks' = cbs
          /\ out_apis' = ConvertApisOut(in_apis, out_apis, cbs)
    /\ conv_pc' = "converted"
    /\ phase' = phase + 1
    /\ UNCHANGED <<in_apis, parseVars>>

ConvNext == ConvertApis

ConvSpec == ConvInit /\ [][ConvNext]_vars

(***************************************************************************)
(* PhaseSpec : a list of APIs goes through phase conversions of either     *)
(* shape, each pass writing a new list that the next pass consumes.        *)
(***************************************************************************)
\* The APIs the first phase is fed with: a placeholder, an API that
\* convert_apis hands to a closure and one that it passes through.
PhaseInputApis ==
    {SampleApi("IgnoredItem", Foo),
     SampleApi("Function", QualifiedName(<<"a">>, "g")),
     SampleApi("Const", Foo)}

RECURSIVE ItemCallbackChoices(_)
ItemCallbackChoices(ins) ==
    IF ins = <<>> THEN {<<>>}
    ELSE {<<a>> \o rest : a \in ItemCallbackAnswers,
                          rest \in ItemCallbackChoices(Tail(ins))}

PhaseInit ==
    /\ ParseIdle
    /\ in_apis \in SeqsUpTo(PhaseInputApis, MaxApis)
    /\ out_apis = <<>>
    /\ callbacks = <<>>
    /\ conv_pc = "ready"
    /\ phase = 0

\* the list the next pass consumes: the list given at first, then the
\* output of the pass before
PhaseInput == IF conv_pc = "ready" THEN in_apis ELSE out_apis

\* let mut out = ApiVec::new(); convert_apis(apis, &mut out, ...)
ConvertApisPhase ==
    /\ phase < MaxPhases
    /\ Len(PhaseInput) <= MaxApis
    /\ \E cbs \in CallbackChoices(PhaseInput) :
          /\ callbacks' = cbs
          /\ out_apis' = ConvertApisOut(PhaseInput, <<>>, cbs)
    /\ in_apis' = PhaseInput
    /\ conv_pc' = "converted"
    /\ phase' = phase + 1
    /\ UNCHANGED parseVars

\* let mut out = ApiVec::new(); convert_item_apis(apis, &mut out, fun)
ConvertItemApisPhase ==
    /\ phase < MaxPhases
    /\ Len(PhaseInput) <= MaxApis
    /\ \E cbs \in ItemCallbackChoices(PhaseInput) :
          /\ callbacks' = cbs
          /\ out_apis' = ConvertItemApisOut(PhaseInput, <<>>, cbs)
    /\ in_apis' = PhaseInput
    /\ conv_pc' = "item_converted"
    /\ phase' = phase + 1
    /\ UNCHANGED parseVars

PhaseNext == ConvertApisPhase \/ ConvertItemApisPhase

PhaseSpec == PhaseInit /\ [][PhaseNext]_vars


(***************************************************************************)
(* Properties of convert_apis (ConvSpec).                                  *)
(***************************************************************************)
\* the variants convert_apis hands to a conversion closure, as section 4.3
\* of the specification lists them
HasConversion(api) == api.kind \in {"Function", "Struct", "Enum", "Typedef"}

\* what the item at i contributes when its conversion does not fail
SuccessOut(i) ==
    IF HasConversion(in_apis[i])
    THEN CallConversion(in_apis[i], callbacks[i]).out
    ELSE <<in_apis[i]>>

SuccessOuts(from, to) ==
    Concat([i \in 1..(to - from + 1) |-> SuccessOut(from + i - 1)])

\* the conversion fails for the Function at k and for no other item
OnlyFailureAt(k) ==
    /\ conv_pc = "converted"
    /\ k \in 1..Len(in_apis)
    /\ in_apis[k].kind = "Function"
    /\ callbacks[k].tag = "Err"
    /\ \A i \in 1..Len(in_apis) : i # k => callbacks[i].tag # "Err"

\* the error the failing closure returned
FailureOf(k) == CallConversion(in_apis[k], callbacks[k])

PhaseInsensitiveKinds ==
    {"Const", "CType", "ConcreteType", "ForwardDeclaration",
     "StringConstructor", "RustType", "RustFn", "RustSubclassFn", "Subclass",
     "SubclassTraitItem", "IgnoredItem"}

\* the number of APIs the item at i contributes to the output
OutLen(i) ==
    CASE callbacks[i].tag = "NotCalled" -> 1
      [] callbacks[i].tag = "Ok1" -> 1
      [] callbacks[i].tag = "Ok2" -> 2
      [] OTHER -> IF callbacks[i].ctx.kind = "Item" THEN 1 ELSE 0

RECURSIVE OutStart(_)
OutStart(i) == IF i = 1 THEN 1 ELSE OutStart(i - 1) + OutLen(i - 1)

\* the item at i is found unchanged at its place of the output
PassedThrough(i) ==
    /\ OutStart(i) <= Len(out_apis)
    /\ out_apis[OutStart(i)] = in_apis[i]

\* C10, as claimed: every Enum, Const, CType, ConcreteType,
\* ForwardDeclaration, StringConstructor, RustType, RustFn, RustSubclassFn,
\* Subclass, SubclassTraitItem and IgnoredItem passes convert_apis unchanged
C10_Original ==
    conv_pc = "converted" =>
        \A i \in 1..Len(in_apis) :
            in_apis[i].kind \in PhaseInsensitiveKinds \cup {"Enum"}
                => PassedThrough(i)

\* C10, amended: every Const, CType, ConcreteType, ForwardDeclaration,
\* StringConstructor, RustType, RustFn, RustSubclassFn, Subclass,
\* SubclassTraitItem and IgnoredItem (not Enum, which goes through
\* enum_conversion) passes convert_apis unchanged, whatever the closures
\* answer: the output holds that API, same name and payload, at its place,
\* and as many APIs as the items contribute
C10_Amended ==
    conv_pc = "converted" =>
        /\ \A i \in 1..Len(in_apis) :
              in_apis[i].kind \in PhaseInsensitiveKinds => PassedThrough(i)
        /\ (\A i \in 1..Len(in_apis) :
                in_apis[i].kind \in PhaseInsensitiveKinds)
              => out_apis = in_apis

\* C10, witness: a StringConstructor passed through behind a Struct that was
\* expanded into two APIs and before an Enum whose conversion failed
C10_Witness ==
    /\ conv_pc = "converted"
    /\ Len(in_apis) = 3
    /\ in_apis[1].kind = "Struct" /\ callbacks[1].tag = "Ok2"
    /\ in_apis[2].kind = "StringConstructor"
    /\ in_apis[3].kind = "Enum" /\ callbacks[3].tag = "Err"
    /\ out_apis[3] = in_apis[2]

(***************************************************************************)
(* Properties of sequences of phase conversions (PhaseSpec).               *)
(***************************************************************************)
IgnoredAt(i) == in_apis[i].kind = "IgnoredItem"

IgnoredCount(v) == Cardinality({j \in 1..Len(v) : v[j].kind = "IgnoredItem"})

\* the pass that was run last, if any
AfterPass == conv_pc \in {"converted", "item_converted"}

\* C11, as claimed: after every pass of either shape, every IgnoredItem of
\* the pass's input is in its output with the same name, error and context,
\* no closure was called for it, and the output holds at least as many
\* IgnoredItems as the input
C11_Original ==
    AfterPass =>
        /\ \A i \in 1..Len(in_apis) :
              IgnoredAt(i) =>
                  /\ callbacks[i] = NotCalled
                  /\ \E j \in 1..Len(out_apis) :
                        /\ out_apis[j].kind = "IgnoredItem"
                        /\ out_apis[j].name = in_apis[i].name
                        /\ out_apis[j].err = in_apis[i].err
                        /\ out_apis[j].ctx = in_apis[i].ctx
        /\ IgnoredCount(out_apis) >= IgnoredCount(in_apis)

\* the number of APIs the item at i contributes to the output of
\* convert_item_apis: none when the closure returns nothing, else one (the
\* API it returns, or the IgnoredItem of its failure)
ItemOutLen(i) == IF callbacks[i].tag = "Ok0" THEN 0 ELSE 1

RECURSIVE ItemOutStart(_)
ItemOutStart(i) ==
    IF i = 1 THEN 1 ELSE ItemOutStart(i - 1) + ItemOutLen(i - 1)

\* C11, amended: after every pass of convert_apis, every IgnoredItem of the
\* input stands unchanged at its place of the output, no closure having been
\* called for it, so that the number of IgnoredItems does not decrease;
\* a pass of convert_item_apis calls its closure for an IgnoredItem as for
\* any other API, and the IgnoredItem is in the output, at its place, only
\* if the closure returns it: if the closure returns nothing the IgnoredItem
\* is gone, and if the closure fails an IgnoredItem of the same name stands
\* at its place with the closure's error and the context Item(identifier
\* of the name)
C11_Amended ==
    /\ conv_pc = "converted" =>
          /\ \A i \in 1..Len(in_apis) :
                IgnoredAt(i) => (callbacks[i] = NotCalled /\ PassedThrough(i))
          /\ IgnoredCount(out_apis) >= IgnoredCount(in_apis)
    /\ conv_pc = "item_converted" =>
          /\ Len(out_apis) = ItemOutStart(Len(in_apis) + 1) - 1
          /\ \A i \in 1..Len(in_apis) :
                IgnoredAt(i) =>
                    /\ callbacks[i] \in ItemCallbackAnswers
                    /\ callbacks[i].tag = "Ok1" =>
                          out_apis[ItemOutStart(i)] = in_apis[i]
                    /\ callbacks[i].tag = "Err" =>
                          out_apis[ItemOutStart(i)] =
                              IgnoredItemApi(in_apis[i].name,
                                             "ConversionFailed",
                                             CtxItem(in_apis[i].name.id), 0)

\* C11, witness: the second pass was a convert_item_apis whose closure
\* failed for the first IgnoredItem of its input, which left an IgnoredItem
\* with another error, returned the second and returned nothing for the
\* third, which is gone
C11_Witness ==
    /\ phase = 2
    /\ conv_pc = "item_converted"
    /\ Len(in_apis) = 3
    /\ \A i \in 1..3 : IgnoredAt(i)
    /\ callbacks[1].tag = "Err"
    /\ callbacks[2].tag = "Ok1"
    /\ callbacks[3].tag = "Ok0"
    /\ Len(out_apis) = 2
    /\ out_apis[1].err # in_apis[1].err
    /\ out_apis[2] = in_apis[2]


(***************************************************************************)
(* Properties of ParseBindgen::parse_items (Spec).                         *)
(***************************************************************************)
\* parse_items reached its end: the list is built, the directives checked
Ended == pc = "done" /\ result \in {"ok", "DidNotGenerateAnything"}

CppNames(v) == {ToCppName(v[i].name) : i \in 1..Len(v)}

\* C2: when parse_items reaches its check, it returns DidNotGenerateAnything
\* and no list if some name of the must-generate list is the C++ name of no
\* API of the list it built, and returns the list if every name is there
C2_DirectivesDecideTheResult ==
    /\ pc = "done" => result # "none"
    /\ Ended =>
          LET missing == \E d \in Range(config.must_generate) :
                              d \notin CppNames(apis)
          IN /\ missing => result = "DidNotGenerateAnything" /\ returned = <<>>
             /\ ~missing => result = "ok" /\ returned = apis

\* C2, witness: a::Foo was generated, a__b of the must-generate list was not
C2_Witness ==
    /\ result = "DidNotGenerateAnything"
    /\ returned = <<>>
    /\ config.must_generate = <<"a::Foo", "a__b">>
    /\ "a::Foo" \in CppNames(apis)
    /\ "a__b" \notin CppNames(apis)

\* C3, as claimed: when a walked declaration named by the must-generate list
\* failed its validation (it left an IgnoredItem) and no other API has its
\* name, parse_items fails with DidNotGenerateAnything
C3_Claim ==
    Ended =>
        \A i \in 1..Len(apis) :
            (/\ apis[i].kind = "IgnoredItem"
             /\ apis[i].src > 0
             /\ ToCppName(apis[i].name) \in Range(config.must_generate)
             /\ \A j \in 1..Len(apis) :
                   apis[j].kind # "IgnoredItem" => apis[j].name # apis[i].name)
                => result = "DidNotGenerateAnything"

\* C4, as claimed: no two APIs of a list parse_items returns have the same
\* qualified name
C4_Claim ==
    result = "ok" =>
        \A i, j \in 1..Len(returned) :
            i # j => returned[i].name # returned[j].name

\* C5, as claimed: once the top-level shape was accepted and items are
\* walked, parse_items runs to its end, whatever the items are
C5_Claim == (pc = "done" /\ pos > 0) => Ended

NonModFirst(items) ==
    \E i \in 1..Len(items) :
        /\ items[i].kind # "Mod"
        /\ \A j \in 1..(i - 1) : items[j] = TopMod("root", FALSE)

CurrentNs == frames[Len(frames)].ns

OnlyFieldIsUnused(s) == Len(s.fields) = 1 /\ s.fields[1].ident = "_unused"

SomeFieldIsUnused(s) == \E i \in 1..Len(s.fields) : s.fields[i].ident = "_unused"

\* the step inserted this API for the item it took
Inserted(kind, name) ==
    /\ Len(apis') = Len(apis) + 1
    /\ apis'[Len(apis')].kind = kind
    /\ apis'[Len(apis')].name = name
    /\ apis'[Len(apis')].src = pos'

InsertedKind(kind) ==
    Len(apis') = Len(apis) + 1 /\ apis'[Len(apis')].kind = kind

\* C7, as claimed: a struct whose only field is _unused always becomes the
\* ForwardDeclaration of its namespace and identifier, and a struct becomes
\* a ForwardDeclaration only when _unused is its only field (every step that
\* is the parse of struct s has these effects)
C7_Original ==
    [][\A s \in StructItems :
          (pc = "walk" /\ pos' = pos + 1) =>
              \/ /\ OnlyFieldIsUnused(s) =>
                       Inserted("ForwardDeclaration",
                                QualifiedName(CurrentNs, s.ident))
                 /\ InsertedKind("ForwardDeclaration") => OnlyFieldIsUnused(s)
              \/ ~ParseLeaf(s)]_vars

\* the struct is not dropped: no vtable placeholder, a valid identifier, no
\* pass-through type of the root namespace, not on the block list, and no API
\* of its name is in the list yet
Accepted(s) ==
    /\ ~EndsWithBindgenVtable(s.ident)
    /\ s.ident \notin InvalidIdents
    /\ ~(CurrentNs = RootNs /\ IsRustType(config, s.ident))
    /\ ToCppName(QualifiedName(CurrentNs, s.ident)) \notin config.blocklist
    /\ QualifiedName(CurrentNs, s.ident) \notin ApiNames(apis)

\* C7, amended: a walked struct with a field named _unused (alone or among
\* other fields) is never classified as a Struct, and, unless it is dropped
\* (vtable placeholder, invalid identifier, pass-through type of the root
\* namespace, block list, name already present), it is inserted as the
\* ForwardDeclaration of the enclosing module path and its identifier;
\* a struct is classified as a ForwardDeclaration only when some field of it
\* is named _unused
C7_Amended ==
    [][\A s \in StructItems :
          (pc = "walk" /\ pos' = pos + 1) =>
              \/ /\ SomeFieldIsUnused(s) => ~InsertedKind("Struct")
                 /\ (SomeFieldIsUnused(s) /\ Accepted(s)) =>
                       Inserted("ForwardDeclaration",
                                QualifiedName(CurrentNs, s.ident))
                 /\ (~SomeFieldIsUnused(s) /\ Accepted(s)) =>
                       Inserted("Struct", QualifiedName(CurrentNs, s.ident))
                 /\ InsertedKind("ForwardDeclaration") => SomeFieldIsUnused(s)
              \/ ~ParseLeaf(s)]_vars

\* C7, witness: struct Foo of namespace a::b became the one API a::b::Foo, a
\* ForwardDeclaration
C7_Witness ==
    /\ result = "ok"
    /\ \E i \in 1..Len(returned) :
          /\ returned[i].kind = "ForwardDeclaration"
          /\ returned[i].name = QualifiedName(<<"a", "b">>, "Foo")
          /\ \A j \in 1..Len(returned) :
                returned[j].name = returned[i].name => j = i

(***************************************************************************)
(* C8 : infinitely recursive renaming uses.                                *)
(***************************************************************************)
UsePathOf(u) == [i \in 1..(Len(u.tree) - 1) |-> u.tree[i].ident]

UseLeafOf(u) == u.tree[Len(u.tree)]

\* `use self::super::<ns>::new as new` met in namespace ns
RenamesItself(u, ns) ==
    /\ UseLeafOf(u).t = "Rename"
    /\ Len(UsePathOf(u)) >= 2
    /\ UsePathOf(u)[1] = "self"
    /\ UsePathOf(u)[2] = "super"
    /\ SubSeq(UsePathOf(u), 3, Len(UsePathOf(u))) = ns
    /\ UseLeafOf(u).ident = UseLeafOf(u).rename

\* C8: a renaming use whose old name, behind self::super, is the new name in
\* the current namespace inserts no API, records one IgnoredItem of the new
\* name with the InfinitelyRecursiveTypedef error and the new identifier as
\* context, and leaves the walk going
C8_RecursiveTypedefIsIgnored ==
    [][\A u \in UseItems :
          (pc = "walk" /\ pos' = pos + 1 /\ RenamesItself(u, CurrentNs)) =>
              \/ /\ apis' = apis
                 /\ Len(frames') = Len(frames)
                 /\ frames'[Len(frames)].more_apis =
                       Append(frames[Len(frames)].more_apis,
                              IgnoredItemApi(
                                  QualifiedName(CurrentNs, UseLeafOf(u).rename),
                                  "InfinitelyRecursiveTypedef",
                                  CtxItem(UseLeafOf(u).rename), pos'))
                 /\ pc' = "walk"
                 /\ result' = "none"
              \/ ~ParseLeaf(u)]_vars

\* C8, witness: the alias of namespace a was ignored, an item walked after
\* it gave an API, and the list returned holds both
C8_Witness ==
    /\ result = "ok"
    /\ \E i, j \in 1..Len(returned) :
          /\ returned[i].kind = "IgnoredItem"
          /\ returned[i].err = "InfinitelyRecursiveTypedef"
          /\ returned[i].name = QualifiedName(<<"a">>, "Foo")
          /\ returned[j].kind = "Const"
          /\ returned[j].src > returned[i].src

(***************************************************************************)
(* C9 : the order of the list.                                             *)
(***************************************************************************)
FromConfig(api) == api.kind \in {"Subclass", "RustFn", "RustType"}

Walked(api) == api.src > 0 /\ api.kind # "Function"

\* C9, as claimed: the APIs of the walked items stand in the order of the
\* items, an IgnoredItem at the place of its item, and the APIs from the
\* configuration stand behind all of them
C9_Original ==
    result = "ok" =>
        \A i, j \in 1..Len(returned) :
            /\ (i < j /\ Walked(returned[i]) /\ Walked(returned[j]))
                  => returned[i].src <= returned[j].src
            /\ (FromConfig(returned[i]) /\ returned[j].src > 0) => j < i

ConfigRank(api) ==
    CASE api.kind = "StringConstructor" -> 0
      [] api.kind = "Subclass" -> 1
      [] api.kind = "RustFn" -> 2
      [] api.kind = "RustType" -> 3
      [] OTHER -> 4

IsPrefix(a, b) == Len(a) <= Len(b) /\ SubSeq(b, 1, Len(a)) = a

\* the APIs a step added to self.apis
Added == SubSeq(apis', Len(apis) + 1, Len(apis'))

\* C9, amended: the list is only ever appended to; the utilities and the APIs
\* from the configuration (Subclass, RustFn, RustType, in this order) are
\* appended before the namespace traversal; a walked item that is accepted
\* appends its API when it is met, so these stand in namespace pre-order and
\* item order; the IgnoredItems of a mod are appended, in item order, after
\* the last item of that mod (not at the place of the ignored item), and
\* the Function APIs of the mod behind them
C9_Amended ==
    [][/\ pc = "start" =>
             \A i, j \in 1..Len(apis') :
                 /\ apis'[i].src = 0
                 /\ ConfigRank(apis'[i]) < 4
                 /\ i < j => ConfigRank(apis'[i]) < ConfigRank(apis'[j])
       /\ pc = "walk" => IsPrefix(apis, apis')
       /\ (pc = "walk" /\ pos' = pos + 1) =>
             /\ Len(Added) <= 1
             /\ \A i \in 1..Len(Added) :
                   /\ Added[i].src = pos'
                   /\ Added[i].kind \notin {"IgnoredItem", "Function"}
             /\ Len(frames') = Len(frames) =>
                   \/ frames'[Len(frames)].more_apis
                          = frames[Len(frames)].more_apis
                   \/ /\ Added = <<>>
                      /\ IsPrefix(frames[Len(frames)].more_apis,
                                  frames'[Len(frames)].more_apis)
                      /\ Len(frames'[Len(frames)].more_apis)
                            = Len(frames[Len(frames)].more_apis) + 1
                      /\ frames'[Len(frames)].more_apis[
                            Len(frames'[Len(frames)].more_apis)].kind
                            = "IgnoredItem"
                      /\ frames'[Len(frames)].more_apis[
                            Len(frames'[Len(frames)].more_apis)].src = pos'
       /\ (pc = "walk" /\ Len(frames') < Len(frames)) =>
             LET more == frames[Len(frames)].more_apis
                 funs == SubSeq(Added, Len(more) + 1, Len(Added))
             IN /\ IsPrefix(more, Added)
                /\ \A i \in 1..Len(funs) :
                      /\ funs[i].kind = "Function"
                      /\ funs[i].name.ns = CurrentNs
                      /\ \A j \in 1..Len(funs) :
                            i < j => funs[i].src <= funs[j].src]_vars

\* C9, witness: the list returned starts with an API from the configuration,
\* and an IgnoredItem stands behind the API of an item walked after its own
C9_Witness ==
    /\ result = "ok"
    /\ Len(returned) >= 3
    /\ FromConfig(returned[1])
    /\ \E i, j \in 1..Len(returned) :
          /\ i < j
          /\ Walked(returned[i])
          /\ returned[i].kind # "IgnoredItem"
          /\ returned[j].kind = "IgnoredItem"
          /\ returned[i].src > returned[j].src

(***************************************************************************)
(* C12 : the block list.                                                   *)
(***************************************************************************)
\* the variants the walk builds for a struct, a forward declaration, an
\* enum, a constant, a renaming use and a plain type alias
DeclarationKinds ==
    {"Struct", "ForwardDeclaration", "Enum", "Const", "Typedef"}

\* C12, as claimed: the list parse_items returns holds no API of a walked
\* struct, forward declaration, enum, constant, renaming use alias or plain
\* type alias whose C++ name is on the block list of the configuration
C12_Claim ==
    result = "ok" =>
        \A j \in 1..Len(returned) :
            (returned[j].src > 0 /\ returned[j].kind \in DeclarationKinds)
                => ~IsOnBlocklist(config, ToCppName(returned[j].name))

=============================================================================
